---------------------------- MODULE Spec2Model ----------------------------
(***************************************************************************)
(* A model of djongo's SQL -> MongoDB compiler front end:                  *)
(*   djongo/sql2mongo/__init__.py    SQLToken, SQLStatement                *)
(*   djongo/sql2mongo/converters.py  the clause converters                 *)
(*                                                                         *)
(* A parsed SQL token is a record with a field "kind" (the sqlparse class  *)
(* or token type of the node) and the fields that kind of node exposes.    *)
(* A Python exception is the name of its class, a value of Errors.         *)
(* Strings the code assembles (f-strings, '+') are sequences of their      *)
(* parts, split at every '$' and '.', so two of them are equal exactly     *)
(* when the assembled texts are.                                           *)
(***************************************************************************)
EXTENDS Integers, Sequences, FiniteSets, TLC

VARIABLES
    phase,          \* the clause the statement's compilation has reached
    err,            \* the exception that ended the compilation, or None
    selected_columns, \* query.selected_columns: the ColumnSelectConverter
    alias2token,    \* query.token_alias.alias2token: alias -> [id, tok]
    token2alias,    \* query.token_alias.token2alias: one <<tok, alias>> per key object
    left_table,     \* query.left_table
    joins,          \* the JoinConverter objects, in the order they were built
    out,            \* the value of the last to_mongo() call, or None
    set_tokens,     \* SetConverter.sql_tokens
    params,         \* query.params
    input,          \* the clause and tokens the last converter was given
    groupby,        \* the GroupbyConverter of the query: <<conv>>, or <<>> for none
    order,          \* the OrderConverter of the query: <<conv>>, or <<>> for none
    statement,      \* SQLStatement._statement: the tokens of the cursor
    tok_id,         \* SQLStatement._tok_id: <<index>>, or <<>> for None
    iterating,      \* a generator of SQLStatement.__iter__ is suspended at its yield
    having          \* the outcome of HavingConverter2(...): <<result>>, or <<>> for none

selectVars == <<selected_columns, alias2token, token2alias, left_table, joins>>
setVars == <<set_tokens, params>>
aggVars == <<groupby, order>>
cursorVars == <<statement, tok_id, iterating, having>>
vars == <<phase, err, out, input, selectVars, setVars, aggVars, cursorVars>>

None == "None"

\* The exception classes the modelled code can raise.
Errors == {"SQLDecodeError", "RecursionError", "AttributeError", "TypeError",
           "IndexError", "KeyError"}

-----------------------------------------------------------------------------
(* Bounds and input pools *)

MaxSelect == 1
MaxJoins == 1
MaxSet == 2
MaxParams == 2
MaxWord == 2
MaxList == 2

Qualifiers == {"x", "y", "t"}
ColumnNames == {"a", "b"}

\* sqlparse.sql.Identifier of the shape  [parent.]name [AS alias]
Ident(parent, name, alias) ==
    [kind |-> "Identifier", first |-> "Name",
     parent |-> parent, name |-> name, alias |-> alias]

\* sqlparse.sql.Comparison  left = right
Comparison(l, r) == [kind |-> "Comparison", left |-> l, right |-> r]

\* sqlparse.sql.Parenthesis  ( inner )
Parenthesis(t) == [kind |-> "Parenthesis", inner |-> t]

\* sqlparse.sql.IdentifierList  a, b, ...
IdentifierList(ids) == [kind |-> "IdentifierList", ids |-> ids]

\* A plain token, with its text (Token.value) as a sequence of parts.
Keyword(v) == [kind |-> "Keyword", value |-> <<v>>]

Wildcard == [kind |-> "Wildcard", value |-> <<"*">>]

SeqsUpTo(S, n) == UNION {[1..k -> S] : k \in 0..n}

\* The columns a SELECT of the join scenarios lists: qualified columns,
\* with or without a column alias.
SelectIdents ==
    {Ident(p, n, al) : p \in {"y", "t"}, n \in ColumnNames, al \in {None, "x"}}

\* The token of a select list: '*', one identifier, or an identifier list.
SelectToken(ids) ==
    IF Len(ids) = 0 THEN Wildcard
    ELSE IF Len(ids) = 1 THEN ids[1]
    ELSE IdentifierList(ids)

FromIdents == {Ident(None, "x", al) : al \in {None, "t", "x"}}

JoinIdents == {Ident(None, "y", None), Ident(None, "y", "t"), Ident(None, "x", "t")}

OnComparisons ==
    {Comparison(Ident(p, "a", None), Ident(q, "b", None)) :
        p \in Qualifiers, q \in Qualifiers}

\* The two tokens after the joined table: ON and a comparison, bare or in
\* parentheses, or a keyword the converter does not accept.
JoinTails ==
    {<<Keyword("ON"), c>> : c \in OnComparisons}
    \cup {<<Keyword("ON"), Parenthesis(Comparison(Ident("x", "a", None), Ident("y", "b", None)))>>,
          <<Keyword("USING"), Parenthesis(Ident(None, "a", None))>>}

\* A token's text, one character per element.
Chars(n) == <<"%", "(", n, ")", "s">>

\* A token of type Name.Placeholder, with its text.
Placeholder(text) == [kind |-> "Placeholder", value |-> text]

Number(v) == [kind |-> "Number", value |-> v]

\* The right sides of the assignments of an UPDATE ... SET.
SetValues ==
    {Placeholder(Chars(d)) : d \in {"0", "1", "2"}}
    \cup {Keyword("NULL"), Number(<<"5">>)}

SetAssignments ==
    {Comparison(Ident(None, c, None), v) : c \in ColumnNames, v \in SetValues}

\* The token after SET: one assignment, a list of them, or another shape.
SetTokens ==
    SetAssignments
    \cup {IdentifierList(ids) : ids \in UNION {[1..k -> SetAssignments] : k \in 2..MaxSet}}
    \cup {IdentifierList(<<Ident(None, "a", None), Ident(None, "b", None)>>),
          Ident(None, "a", None)}

ParamValues == {"u", "v"}

\* query.params of a statement with placeholders
ParamLists == UNION {[1..n -> ParamValues] : n \in 1..MaxParams}

\* The words (\w+) of at most MaxWord characters over digits and a letter.
Words == UNION {[1..k -> {"0", "1", "x"}] : k \in 1..MaxWord}

\* The texts sqlparse's lexer types Name.Placeholder: %s, %(word)s, ?  and
\* :word.
PlaceholderTexts ==
    {<<"%", "s">>, <<"?">>}
    \cup {<<"%", "(">> \o w \o <<")", "s">> : w \in Words}
    \cup {<<":">> \o w : w \in Words}

\* The tokens on the right of a comparison or inside a parenthesized list.
ValueTokens ==
    {Placeholder(t) : t \in PlaceholderTexts}
    \cup {Keyword("NULL"), Number(<<"5">>)}

\* The tokens whose parameter indexes are read: a comparison (its right
\* side), or a parenthesis around one value or a list of values.
IndexedTokens ==
    {Comparison(Ident(None, "a", None), v) : v \in ValueTokens}
    \cup {Parenthesis(v) : v \in ValueTokens}
    \cup {Parenthesis(IdentifierList(vs)) :
              vs \in UNION {[1..k -> ValueTokens] : k \in 2..MaxList}}

-----------------------------------------------------------------------------
(* SQLToken *)

IsErr(v) == v \in Errors

\* Token.get_parent_name() / get_real_name() of an identifier.
ParentName(tok) == tok.parent
RealName(tok) == tok.name

\* The alias2token[name].table chain of SQLToken.table, `fuel` lookups deep.
\* Every lookup of a chain longer than the registry has entries repeats a
\* name, so the Python recursion never ends: RecursionError.
RECURSIVE ResolveName(_, _, _)
ResolveName(name, a2t, fuel) ==
    IF name \notin DOMAIN a2t THEN name                  \* KeyError: return name
    ELSE IF fuel = 0 THEN "RecursionError"
    ELSE LET tok == a2t[name].tok
             nm  == IF ParentName(tok) # None THEN ParentName(tok) ELSE RealName(tok)
         IN  ResolveName(nm, a2t, fuel - 1)

\* SQLToken.table
Table(tok, a2t) ==
    IF tok.kind # "Identifier" THEN "SQLDecodeError"
    ELSE LET name == IF ParentName(tok) # None THEN ParentName(tok) ELSE RealName(tok)
         IN  IF name = None THEN "SQLDecodeError"
             ELSE ResolveName(name, a2t, Cardinality(DOMAIN a2t) + 1)

\* SQLToken.column
Column(tok) ==
    IF tok.kind # "Identifier" THEN "SQLDecodeError"
    ELSE IF RealName(tok) = None THEN "SQLDecodeError"
    ELSE RealName(tok)

\* SQLToken.alias
Alias(tok) ==
    IF tok.kind # "Identifier" THEN "SQLDecodeError" ELSE tok.alias

\* SQLToken.left_table, left_column, right_table, right_column
LeftTable(tok, a2t) ==
    IF tok.kind # "Comparison" THEN "SQLDecodeError" ELSE Table(tok.left, a2t)
LeftColumn(tok) ==
    IF tok.kind # "Comparison" THEN "SQLDecodeError" ELSE Column(tok.left)
RightTable(tok, a2t) ==
    IF tok.kind # "Comparison" THEN "SQLDecodeError" ELSE Table(tok.right, a2t)
RightColumn(tok) ==
    IF tok.kind # "Comparison" THEN "SQLDecodeError" ELSE Column(tok.right)

\* SQLToken.lhs_column
LhsColumn(tok) ==
    IF tok.kind # "Comparison" THEN "SQLDecodeError" ELSE Column(tok.left)

Digits == {"0", "1", "2", "3", "4", "5", "6", "7", "8", "9"}

DigitValue(c) ==
    CASE c = "0" -> 0 [] c = "1" -> 1 [] c = "2" -> 2 [] c = "3" -> 3 [] c = "4" -> 4
      [] c = "5" -> 5 [] c = "6" -> 6 [] c = "7" -> 7 [] c = "8" -> 8 [] c = "9" -> 9

\* int() of the decimal digits text[from..to]
RECURSIVE IntOf(_, _, _)
IntOf(text, from, to) ==
    IF to < from THEN 0
    ELSE 10 * IntOf(text, from, to - 1) + DigitValue(text[to])

\* The last position of the run of digits of `text` that starts at 3, or 2
\* when text[3] is no digit: what ([0-9]+) can match after '%('.
DigitsEnd(text) ==
    CHOOSE k \in 2..Len(text) :
        /\ \A i \in 3..k : text[i] \in Digits
        /\ (k < Len(text) => text[k + 1] \notin Digits)

\* re.match(r'%\(([0-9]+)\)s', text, flags=re.IGNORECASE): the pattern is
\* tried at the start of the text and need not reach its end.
PlaceholderMatches(text) ==
    /\ Len(text) >= 5
    /\ text[1] = "%"
    /\ text[2] = "("
    /\ DigitsEnd(text) >= 3
    /\ Len(text) >= DigitsEnd(text) + 2
    /\ text[DigitsEnd(text) + 1] = ")"
    /\ text[DigitsEnd(text) + 2] \in {"s", "S"}

\* What an index lookup gives: an index, None (a NULL literal) or an exception.
Index(n) == [err |-> None, null |-> FALSE, index |-> n]
NullIndex == [err |-> None, null |-> TRUE, index |-> 0]
IndexErr(e) == [err |-> e, null |-> FALSE, index |-> 0]

\* SQLToken.placeholder_index: .group(1) of a failed match is an
\* AttributeError ('NoneType' object has no attribute 'group').
PlaceholderIndex(token) ==
    IF PlaceholderMatches(token.value)
    THEN Index(IntOf(token.value, 3, DigitsEnd(token.value)))
    ELSE IndexErr("AttributeError")

\* token.match(tokens.Keyword, 'NULL')
IsNull(token) == token = Keyword("NULL")

\* SQLToken.rhs_indexes
RhsIndexes(tok) ==
    IF tok.kind # "Comparison" THEN IndexErr("AttributeError")   \* no .right
    ELSE IF tok.right.kind # "Placeholder"
    THEN IF IsNull(tok.right) THEN NullIndex ELSE IndexErr("SQLDecodeError")
    ELSE PlaceholderIndex(tok.right)

\* The elements SQLToken.__iter__ yields for the identifiers ids[i..] of a
\* parenthesized list, after `acc`: [err, value], value the indexes
\* yielded before the exception, if any.
RECURSIVE IterIdentifiers(_, _, _)
IterIdentifiers(ids, i, acc) ==
    IF i > Len(ids) THEN [err |-> None, value |-> acc]
    ELSE IF ids[i].kind = "Placeholder"
    THEN IF PlaceholderIndex(ids[i]).err # None
         THEN [err |-> PlaceholderIndex(ids[i]).err, value |-> acc]
         ELSE IterIdentifiers(ids, i + 1, Append(acc, PlaceholderIndex(ids[i])))
    ELSE IF IsNull(ids[i]) THEN IterIdentifiers(ids, i + 1, Append(acc, NullIndex))
    ELSE [err |-> "SQLDecodeError", value |-> acc]

\* SQLToken.__iter__, run to its end: tok.inner is self._token[1:-1][0]
Iter(tok) ==
    IF tok.kind # "Parenthesis" THEN [err |-> "SQLDecodeError", value |-> <<>>]
    ELSE IF tok.inner.kind = "Placeholder"
    THEN IF PlaceholderIndex(tok.inner).err # None
         THEN [err |-> PlaceholderIndex(tok.inner).err, value |-> <<>>]
         ELSE [err |-> None, value |-> <<PlaceholderIndex(tok.inner)>>]
    ELSE IF IsNull(tok.inner) THEN [err |-> None, value |-> <<NullIndex>>]
    ELSE IF tok.inner.kind = "IdentifierList" THEN IterIdentifiers(tok.inner.ids, 1, <<>>)
    ELSE [err |-> "SQLDecodeError", value |-> <<>>]

-----------------------------------------------------------------------------
(* The alias registry *)

\* alias2token[alias] = sql ; token2alias[sql] = alias.  SQLToken defines
\* __hash__ and no __eq__, so every SQLToken object is a key of its own:
\* token2alias gains an entry per registration.
RegA2T(a2t, t2a, tok) ==
    (Alias(tok) :> [id |-> Len(t2a) + 1, tok |-> tok]) @@ a2t
RegT2A(t2a, tok) == Append(t2a, <<tok, Alias(tok)>>)

EmptyMap == [n \in {} |-> None]

-----------------------------------------------------------------------------
(* ColumnSelectConverter *)

\* ColumnSelectConverter.__init__, before parse() runs.
NewColumnSelect ==
    [select_all |-> FALSE, return_const |-> None, has_func |-> FALSE,
     sql_tokens |-> <<>>, distinct |-> None]

\* The state a converter's parse() works on: the converter, the registry
\* and the exception raised so far.
ParseState(conv, a2t, t2a) == [conv |-> conv, a2t |-> a2t, t2a |-> t2a, err |-> None]

Raise(s, e) == [s EXCEPT !.err = e]

\* ColumnSelectConverter._identifier
SelectIdentifier(s, tok) ==
    IF tok.kind \notin {"Identifier", "Function", "Parenthesis", "IdentifierList"}
    THEN Raise(s, "TypeError")                      \* tok[0] of a plain Token
    ELSE IF tok.kind = "Identifier" /\ tok.first = "Parenthesis"
    THEN [s EXCEPT !.conv.return_const = tok.value]
    ELSE IF tok.kind = "Identifier" /\ tok.first = "Function"
    THEN [s EXCEPT !.conv.has_func = TRUE,
                   !.conv.sql_tokens = Append(@, tok)]
    ELSE LET s1 == [s EXCEPT !.conv.sql_tokens = Append(@, tok)]
         IN  IF IsErr(Alias(tok)) THEN Raise(s1, Alias(tok))
             ELSE IF Alias(tok) # None
             THEN [s1 EXCEPT !.a2t = RegA2T(s.a2t, s.t2a, tok),
                             !.t2a = RegT2A(s.t2a, tok)]
             ELSE s1

\* for atok in tok.get_identifiers(): self._identifier(atok)
RECURSIVE SelectIdentifiers(_, _, _)
SelectIdentifiers(s, ids, i) ==
    IF i > Len(ids) \/ s.err # None THEN s
    ELSE SelectIdentifiers(SelectIdentifier(s, ids[i]), ids, i + 1)

\* ColumnSelectConverter.parse on the tokens that follow the cursor; the
\* DISTINCT branch builds a DistinctConverter, whose parse is this one, on
\* the same cursor.
RECURSIVE ColumnSelectParse(_, _, _)
ColumnSelectParse(toks, a2t, t2a) ==
    LET s0  == ParseState(NewColumnSelect, a2t, t2a)
        tok == toks[1]
    IN  IF Len(toks) = 0 THEN Raise(s0, "AttributeError")       \* None.value
        ELSE IF tok.kind = "Wildcard" THEN [s0 EXCEPT !.conv.select_all = TRUE]
        ELSE IF tok.kind = "Identifier" THEN SelectIdentifier(s0, tok)
        ELSE IF tok.kind = "IdentifierList" THEN SelectIdentifiers(s0, tok.ids, 1)
        ELSE IF tok = Keyword("DISTINCT")
        THEN LET d == ColumnSelectParse(Tail(toks), a2t, t2a)
             IN  [d EXCEPT !.conv = [s0.conv EXCEPT !.distinct = d.conv]]
        ELSE Raise(s0, "SQLDecodeError")

-----------------------------------------------------------------------------
(* FromConverter *)

\* FromConverter.parse: [left_table, a2t, t2a, err]
FromParse(tok, a2t, t2a) ==
    LET table == Table(tok, a2t)
    IN  IF IsErr(table)
        THEN [left_table |-> None, a2t |-> a2t, t2a |-> t2a, err |-> table]
        ELSE IF Alias(tok) # None
        THEN [left_table |-> table, a2t |-> RegA2T(a2t, t2a, tok),
              t2a |-> RegT2A(t2a, tok), err |-> None]
        ELSE [left_table |-> table, a2t |-> a2t, t2a |-> t2a, err |-> None]

-----------------------------------------------------------------------------
(* JoinConverter *)

\* JoinConverter.__init__, before parse() runs.
NewJoin(type) ==
    [type |-> type, left_table |-> None, right_table |-> None,
     left_column |-> None, right_column |-> None]

\* The first of the values vs that is an exception, or None.
FirstErr(vs) ==
    IF \E i \in 1..Len(vs) : IsErr(vs[i])
    THEN vs[CHOOSE i \in 1..Len(vs) : IsErr(vs[i]) /\ \A k \in 1..(i - 1) : ~IsErr(vs[k])]
    ELSE None

\* The ON branch of JoinConverter.parse, once the joined table is known:
\* the side of the comparison that names the joined table is the right one.
JoinSides(j, cmp, a2t) ==
    IF IsErr(RightTable(cmp, a2t)) THEN [conv |-> j, err |-> RightTable(cmp, a2t)]
    ELSE IF j.right_table = RightTable(cmp, a2t)
    THEN LET e == FirstErr(<<LeftTable(cmp, a2t), LeftColumn(cmp), RightColumn(cmp)>>)
         IN  IF e # None THEN [conv |-> j, err |-> e]
             ELSE [conv |-> [j EXCEPT !.left_table = LeftTable(cmp, a2t),
                                      !.left_column = LeftColumn(cmp),
                                      !.right_column = RightColumn(cmp)],
                   err |-> None]
    ELSE LET e == FirstErr(<<RightColumn(cmp), LeftColumn(cmp)>>)
         IN  IF e # None THEN [conv |-> j, err |-> e]
             ELSE [conv |-> [j EXCEPT !.left_table = RightTable(cmp, a2t),
                                      !.left_column = RightColumn(cmp),
                                      !.right_column = LeftColumn(cmp)],
                   err |-> None]

\* JoinConverter.parse on the three tokens after JOIN: the joined table,
\* the keyword and the (possibly parenthesized) comparison.
JoinParse(type, tok, kw, on, a2t, t2a) ==
    LET table == Table(tok, a2t)
        s0    == ParseState(NewJoin(type), a2t, t2a)
        s1    == IF Alias(tok) # None
                 THEN [s0 EXCEPT !.conv.right_table = table,
                                 !.a2t = RegA2T(a2t, t2a, tok),
                                 !.t2a = RegT2A(t2a, tok)]
                 ELSE [s0 EXCEPT !.conv.right_table = table]
        cmp   == IF on.kind = "Parenthesis" THEN on.inner ELSE on
        sides == JoinSides(s1.conv, cmp, s1.a2t)
    IN  IF IsErr(table) THEN Raise(s0, table)
        ELSE IF kw # Keyword("ON") THEN Raise(s1, "SQLDecodeError")
        ELSE [s1 EXCEPT !.conv = sides.conv, !.err = sides.err]

\* A Python string of one name.
Str(name) == <<name>>

\* _lookup without the qualification of a field of another table.
LookupUnqualified(j, query_left_table) ==
    "$lookup" :> [from |-> Str(j.right_table),
                  localField |-> Str(j.left_column),
                  foreignField |-> Str(j.right_column),
                  as |-> Str(j.right_table)]

\* JoinConverter._lookup
Lookup(j, query_left_table) ==
    LET local_field == IF j.left_table = query_left_table
                       THEN Str(j.left_column)
                       ELSE <<j.left_table, ".", j.left_column>>
    IN  "$lookup" :> [from |-> Str(j.right_table),
                      localField |-> local_field,
                      foreignField |-> Str(j.right_column),
                      as |-> Str(j.right_table)]

\* What a to_mongo() call gives: the value returned, or the exception raised.
Returned(v) == [err |-> None, value |-> v]
Raised(e) == [err |-> e, value |-> None]

\* {'$ne': None, '$exists': True}
NotNull == ("$ne" :> None) @@ ("$exists" :> TRUE)

\* InnerJoinConverter.to_mongo
InnerJoinToMongo(j, query_left_table) ==
    LET match_field == IF j.left_table = query_left_table
                       THEN Str(j.left_column)
                       ELSE <<j.left_table, ".", j.left_column>>
    IN  Returned(<< "$match" :> (match_field :> NotNull),
                    Lookup(j, query_left_table),
                    "$unwind" :> <<"$", j.right_table>> >>)

\* SQLToken.table / .column of an entry of selected_columns.sql_tokens.
SelectedTable(sel, a2t) == Table(sel, a2t)
SelectedColumn(sel) == Column(sel)

\* OuterJoinConverter._null_fields: the keys of `fields` (each maps to
\* None), or the exception a tok.table raised.
NullFields(table, toks, a2t) ==
    LET e == FirstErr([i \in 1..Len(toks) |-> SelectedTable(toks[i], a2t)])
    IN  IF e # None THEN Raised(e)
        ELSE Returned({Str(SelectedColumn(toks[i])) :
                 i \in {k \in 1..Len(toks) : SelectedTable(toks[k], a2t) = table}})

\* OuterJoinConverter.to_mongo
OuterJoinToMongo(j, query_left_table, toks, a2t) ==
    LET null_fields == NullFields(j.right_table, toks, a2t)
    IN  IF null_fields.err # None THEN null_fields
        ELSE Returned(<< Lookup(j, query_left_table),
                "$unwind" :> [path |-> <<"$", j.right_table>>,
                              preserveNullAndEmptyArrays |-> TRUE],
                "$addFields" :> (Str(j.right_table) :>
                                    ("$ifNull" :> << <<"$", j.right_table>>,
                                                     null_fields.value >>)) >>)

JoinToMongo(j, query_left_table, toks, a2t) ==
    IF j.type = "INNER" THEN InnerJoinToMongo(j, query_left_table)
    ELSE OuterJoinToMongo(j, query_left_table, toks, a2t)

-----------------------------------------------------------------------------
(* Compiling a SELECT with joins: SELECT cols FROM t [JOIN ...]* *)

Fail(e) == /\ phase' = "error"
           /\ err' = e

\* The state of the parts of the compiler a scenario does not use.
NoSelect ==
    /\ selected_columns = NewColumnSelect
    /\ alias2token = EmptyMap
    /\ token2alias = <<>>
    /\ left_table = None
    /\ joins = <<>>
NoSet == set_tokens = <<>> /\ params = <<>>
NoAgg == groupby = <<>> /\ order = <<>>
NoCursor == statement = <<>> /\ tok_id = <<>> /\ iterating = FALSE /\ having = <<>>

\* What a converter was given: the clause keyword and the tokens after it.
Given(clause, toks) == [clause |-> clause, toks |-> toks]
NoInput == Given("none", <<>>)

InitJoin ==
    /\ phase = "select"
    /\ err = None
    /\ out = None
    /\ input = NoInput
    /\ NoSelect /\ NoSet /\ NoAgg /\ NoCursor

\* SELECT: query.selected_columns = ColumnSelectConverter(query, statement)
SelectColumns(toks) ==
    /\ phase = "select"
    /\ LET s == ColumnSelectParse(toks, alias2token, token2alias)
       IN  /\ selected_columns' = s.conv
           /\ alias2token' = s.a2t
           /\ token2alias' = s.t2a
           /\ IF s.err # None THEN Fail(s.err)
              ELSE phase' = "from" /\ err' = None
    /\ input' = Given("SELECT", toks)
    /\ UNCHANGED <<left_table, joins, out, setVars, aggVars, cursorVars>>

\* FROM: FromConverter(query, statement)
From(tok) ==
    /\ phase = "from"
    /\ LET s == FromParse(tok, alias2token, token2alias)
       IN  /\ left_table' = s.left_table
           /\ alias2token' = s.a2t
           /\ token2alias' = s.t2a
           /\ IF s.err # None THEN Fail(s.err)
              ELSE phase' = "join" /\ err' = None
    /\ UNCHANGED <<selected_columns, joins, out, input, setVars, aggVars, cursorVars>>

\* [INNER|LEFT OUTER] JOIN: query.joins.append(XJoinConverter(query, statement))
Join(type, tok, kw, on) ==
    /\ phase = "join"
    /\ Len(joins) < MaxJoins
    /\ LET s == JoinParse(type, tok, kw, on, alias2token, token2alias)
       IN  /\ alias2token' = s.a2t
           /\ token2alias' = s.t2a
           /\ IF s.err # None THEN Fail(s.err) /\ UNCHANGED joins
              ELSE /\ joins' = Append(joins, s.conv)
                   /\ UNCHANGED <<phase, err>>
    /\ UNCHANGED <<selected_columns, left_table, out, input, setVars, aggVars, cursorVars>>

\* The end of the statement: every join converter's to_mongo().
JoinsToMongo ==
    /\ phase = "join"
    /\ phase' = "done"
    /\ out' = [i \in 1..Len(joins) |->
                  JoinToMongo(joins[i], left_table, selected_columns.sql_tokens,
                              alias2token)]
    /\ UNCHANGED <<err, input, selectVars, setVars, aggVars, cursorVars>>

NextJoin ==
    \/ \E ids \in SeqsUpTo(SelectIdents, MaxSelect) : SelectColumns(<<SelectToken(ids)>>)
    \/ \E tok \in FromIdents : From(tok)
    \/ \E type \in {"INNER", "OUTER"}, tok \in JoinIdents, tail \in JoinTails :
            Join(type, tok, tail[1], tail[2])
    \/ JoinsToMongo

SpecJoin == InitJoin /\ [][NextJoin]_vars

-----------------------------------------------------------------------------
(* Claims about the join converters *)

\* The field a join reads on the local side: the bare column when the
\* join's left table is the query's primary table, else 'table.column'.
JoinLocalField(j) ==
    IF j.left_table = left_table THEN <<j.left_column>>
    ELSE <<j.left_table, ".", j.left_column>>

\* C1: for every parsed INNER JOIN, to_mongo returns exactly three stages in
\* this order: a $match requiring the local join field to be
\* {$ne: null, $exists: true}, the $lookup {from: right table, localField:
\* local field, foreignField: right column, as: right table} and
\* {$unwind: '$' + right table}; the field $match guards is the $lookup's
\* localField, unqualified exactly when the join's left table is the
\* query's primary table.
C1_InnerJoinStages ==
    phase = "done" =>
        \A i \in 1..Len(joins) :
            joins[i].type = "INNER" =>
                /\ out[i].err = None
                /\ Len(out[i].value) = 3
                /\ out[i].value[1] =
                       "$match" :> (JoinLocalField(joins[i]) :>
                                       (("$ne" :> None) @@ ("$exists" :> TRUE)))
                /\ out[i].value[2] =
                       "$lookup" :> [from |-> <<joins[i].right_table>>,
                                     localField |-> JoinLocalField(joins[i]),
                                     foreignField |-> <<joins[i].right_column>>,
                                     as |-> <<joins[i].right_table>>]
                /\ out[i].value[3] = "$unwind" :> <<"$", joins[i].right_table>>
                /\ DOMAIN out[i].value[1]["$match"] =
                       {out[i].value[2]["$lookup"].localField}

\* C1's case: an inner join was compiled whose left table is not the
\* primary table, so both fields are qualified.
C1_Witness ==
    /\ phase = "done"
    /\ \E i \in 1..Len(joins) :
          /\ joins[i].type = "INNER"
          /\ joins[i].left_table # left_table
          /\ out[i].err = None
          /\ out[i].value[2]["$lookup"].localField
                = <<joins[i].left_table, ".", joins[i].left_column>>

\* The keys OuterJoinConverter should null-fill: the columns of the select
\* list whose table resolves to the joined table.
RightTableColumns(j) ==
    {<<selected_columns.sql_tokens[k].name>> :
        k \in {n \in 1..Len(selected_columns.sql_tokens) :
                  Table(selected_columns.sql_tokens[n], alias2token) = j.right_table}}

\* What C2 states of one compiled outer join.
OuterJoinStagesOf(i) ==
    /\ out[i].err = None
    /\ Len(out[i].value) = 3
    /\ out[i].value[1] =
           "$lookup" :> [from |-> <<joins[i].right_table>>,
                         localField |-> JoinLocalField(joins[i]),
                         foreignField |-> <<joins[i].right_column>>,
                         as |-> <<joins[i].right_table>>]
    /\ out[i].value[2] =
           "$unwind" :> [path |-> <<"$", joins[i].right_table>>,
                         preserveNullAndEmptyArrays |-> TRUE]
    /\ out[i].value[3] =
           "$addFields" :> (<<joins[i].right_table>> :>
               ("$ifNull" :> << <<"$", joins[i].right_table>>,
                                RightTableColumns(joins[i]) >>))

\* C2: for every parsed LEFT/OUTER JOIN, to_mongo returns exactly [$lookup,
\* $unwind with preserveNullAndEmptyArrays, $addFields], with no $match, and
\* the $ifNull fallback has a null key for exactly the selected columns
\* whose resolved table is the joined table.
C2_OuterJoinStages ==
    phase = "done" =>
        \A i \in 1..Len(joins) : joins[i].type = "OUTER" => OuterJoinStagesOf(i)

\* What remains of C2 on the code: an outer join's to_mongo that returns,
\* returns the stages C2 states.
OuterJoinStagesWhenReturned ==
    phase = "done" =>
        \A i \in 1..Len(joins) :
            (joins[i].type = "OUTER" /\ out[i].err = None) => OuterJoinStagesOf(i)

\* The identifiers that refer to the name t: t.column and t itself.
RefersTo(t) == {Ident(t, c, None) : c \in ColumnNames} \cup {Ident(None, t, None)}

\* The registrations FROM and JOIN made: their tokens are `table AS t`,
\* the select list's are `q.column AS c`.
TableRegistrations ==
    {i \in 1..Len(token2alias) : token2alias[i][1].parent = None}

\* C4: once FROM or JOIN has registered `table AS t`, then after any further
\* registrations SQLToken.table of every identifier whose prefix or own
\* name is t returns table; a name that is no registered alias is returned
\* unchanged.
C4_AliasResolves ==
    /\ \A i \in TableRegistrations :
          \A id \in RefersTo(token2alias[i][2]) :
              Table(id, alias2token) = token2alias[i][1].name
    /\ \A n \in Qualifiers \ DOMAIN alias2token :
          \A id \in RefersTo(n) : Table(id, alias2token) = n

\* The comparison with its two sides exchanged: `r = l` for `l = r`.
Mirrored(cmp) == Comparison(cmp.right, cmp.left)

\* The converter of `JOIN tok ON cmp` parsed in the current registry.
ParsedOn(tok, cmp) ==
    JoinParse("INNER", tok, Keyword("ON"), cmp, alias2token, token2alias)

\* Both orders of the ON comparison of `JOIN tok` parse to the same
\* left_table, left_column and right_column (an order that does not parse
\* states nothing).
SameSides(tok, cmp) ==
    LET p == ParsedOn(tok, cmp)
        m == ParsedOn(tok, Mirrored(cmp))
    IN  (p.err = None /\ m.err = None) =>
            /\ p.conv.left_table = m.conv.left_table
            /\ p.conv.left_column = m.conv.left_column
            /\ p.conv.right_column = m.conv.right_column

\* The sides of cmp that name the table joined by `JOIN tok`, once tok's
\* alias is registered.
SidesOfJoined(tok, cmp) ==
    LET p == ParsedOn(tok, cmp)
    IN  {s \in {cmp.left, cmp.right} : Table(s, p.a2t) = p.conv.right_table}

\* C11: after FROM, for every joined table and every ON comparison of two
\* qualified columns that names the joined table, `ON l = r` and `ON r = l`
\* give the same left_table, left_column and right_column: with the joined
\* table named directly, through its alias, or on both sides (a self-join).
C11_OrderIndependent ==
    phase = "join" =>
        \A tok \in JoinIdents, cmp \in OnComparisons :
            SidesOfJoined(tok, cmp) # {} => SameSides(tok, cmp)

\* The same, for the comparisons of which exactly one side names the joined
\* table.
OrderIndependentOneSide ==
    phase = "join" =>
        \A tok \in JoinIdents, cmp \in OnComparisons :
            Cardinality(SidesOfJoined(tok, cmp)) = 1 => SameSides(tok, cmp)

\* A self-join `FROM x JOIN x AS t ON x.a = t.b` whose two orders parse.
SelfJoinParsed ==
    LET tok == Ident(None, "x", "t")
        cmp == Comparison(Ident("x", "a", None), Ident("t", "b", None))
    IN  /\ phase = "join"
        /\ left_table = "x"
        /\ ParsedOn(tok, cmp).err = None
        /\ ParsedOn(tok, Mirrored(cmp)).err = None
        /\ Cardinality(SidesOfJoined(tok, cmp)) = 2

\* The identifiers a statement over the model's names can hold: a bare name
\* or a qualified column, with or without an alias.
Identifiers ==
    {Ident(p, n, al) : p \in Qualifiers \cup {None},
                       n \in Qualifiers \cup ColumnNames,
                       al \in Qualifiers \cup {None}}

\* The names alias2token binds to a token whose own table name is bound
\* too: the lookups SQLToken.table makes one after the other.
NextLookup(name) ==
    LET tok == alias2token[name].tok
    IN  IF ParentName(tok) # None THEN ParentName(tok) ELSE RealName(tok)

\* C12: in every registry the SELECT, FROM and JOIN converters build,
\* SQLToken.table of every identifier returns a table name (it raises
\* nothing, and no RecursionError in particular), also when an alias is the
\* name it is bound to or when aliases refer to each other.
C12_TableTerminates ==
    \A id \in Identifiers : ~ IsErr(Table(id, alias2token))

\* The same, for the registries in which no alias is bound to a token whose
\* table name is itself a bound alias.
TableTerminatesWithoutChains ==
    (\A a \in DOMAIN alias2token : NextLookup(a) \notin DOMAIN alias2token)
        => \A id \in Identifiers : ~ IsErr(Table(id, alias2token))

\* `FROM x AS x`: the alias x is bound to a token whose table name is x.
SelfAliasRegistered ==
    /\ "x" \in DOMAIN alias2token
    /\ NextLookup("x") = "x"
    /\ Table(Ident("x", "a", None), alias2token) = "RecursionError"

\* alias2token[a] is the token object of registration i.
BoundTo(a, i) == a \in DOMAIN alias2token /\ alias2token[a].id = i

\* C13: after any registrations by SELECT, FROM and JOIN, token2alias[t] = a
\* exactly when alias2token[a] = t: every token that has an alias is the
\* token its alias resolves to, and every alias is the alias of its token,
\* also after an alias name was bound a second time.
C13_MutuallyInverse ==
    /\ \A i \in 1..Len(token2alias) : BoundTo(token2alias[i][2], i)
    /\ \A a \in DOMAIN alias2token :
          /\ alias2token[a].id \in 1..Len(token2alias)
          /\ token2alias[alias2token[a].id] = <<alias2token[a].tok, a>>

\* The half of it that survives a second binding: every alias is the alias
\* token2alias holds for its token, and the mappings are mutually inverse
\* while every registration bound another alias name.
InverseUntilRebound ==
    /\ \A a \in DOMAIN alias2token :
          /\ alias2token[a].id \in 1..Len(token2alias)
          /\ token2alias[alias2token[a].id] = <<alias2token[a].tok, a>>
    /\ (\A i, k \in 1..Len(token2alias) :
            i # k => token2alias[i][2] # token2alias[k][2])
          => \A i \in 1..Len(token2alias) : BoundTo(token2alias[i][2], i)

\* `FROM x AS t ... JOIN y AS t`: the alias t was bound twice, to tokens of
\* different tables.
AliasRebound ==
    \E i, k \in 1..Len(token2alias) :
        /\ i < k
        /\ token2alias[i][2] = token2alias[k][2]
        /\ token2alias[i][1] # token2alias[k][1]
        /\ ~ BoundTo(token2alias[i][2], i)

-----------------------------------------------------------------------------
(* SetConverter: UPDATE t SET ... *)

\* SetConverter.parse: [sql_tokens, err]
SetParse(tok) ==
    IF tok.kind = "Comparison" THEN [sql_tokens |-> <<tok>>, err |-> None]
    ELSE IF tok.kind = "IdentifierList" THEN [sql_tokens |-> tok.ids, err |-> None]
    ELSE [sql_tokens |-> <<>>, err |-> "SQLDecodeError"]

\* The value of an assignment, were the index tested for truth
\* (`if sql.rhs_indexes`) and not against None: index 0 reads as NULL.
SetValueTruthy(tok, ps) ==
    LET idx == RhsIndexes(tok)
    IN  IF idx.err # None THEN Raised(idx.err)
        ELSE IF idx.null \/ idx.index = 0 THEN Returned(None)
        ELSE IF idx.index >= Len(ps) THEN Raised("IndexError")
        ELSE Returned(ps[idx.index + 1])

\* self.query.params[sql.rhs_indexes] if sql.rhs_indexes is not None else None
SetValue(tok, ps) ==
    LET idx == RhsIndexes(tok)
    IN  IF idx.err # None THEN Raised(idx.err)
        ELSE IF idx.null THEN Returned(None)
        ELSE IF idx.index >= Len(ps) THEN Raised("IndexError")
        ELSE Returned(ps[idx.index + 1])

\* The dict comprehension of SetConverter.to_mongo over toks[i..]: each
\* entry evaluates its key, then its value, and a later entry replaces an
\* earlier one with the same key.
RECURSIVE SetDocument(_, _, _, _)
SetDocument(toks, ps, i, doc) ==
    IF i > Len(toks) THEN Returned(doc)
    ELSE IF IsErr(LhsColumn(toks[i])) THEN Raised(LhsColumn(toks[i]))
    ELSE IF SetValue(toks[i], ps).err # None THEN SetValue(toks[i], ps)
    ELSE SetDocument(toks, ps, i + 1,
                     (Str(LhsColumn(toks[i])) :> SetValue(toks[i], ps).value) @@ doc)

\* SetConverter.to_mongo
SetToMongo(toks, ps) ==
    LET doc == SetDocument(toks, ps, 1, EmptyMap)
    IN  IF doc.err # None THEN doc
        ELSE Returned("update" :> ("$set" :> doc.value))

InitSet ==
    /\ phase = "set"
    /\ err = None
    /\ out = None
    /\ input = NoInput
    /\ NoSelect /\ NoAgg /\ NoCursor
    /\ set_tokens = <<>>
    /\ params \in ParamLists

\* SET: SetConverter(query, statement)
Set(tok) ==
    /\ phase = "set"
    /\ set_tokens' = SetParse(tok).sql_tokens
    /\ IF SetParse(tok).err # None THEN Fail(SetParse(tok).err)
       ELSE phase' = "update" /\ err' = None
    /\ input' = Given("SET", <<tok>>)
    /\ UNCHANGED <<out, selectVars, params, aggVars, cursorVars>>

\* The end of the statement: the SetConverter's to_mongo().
Update ==
    /\ phase = "update"
    /\ phase' = "done"
    /\ out' = SetToMongo(set_tokens, params)
    /\ UNCHANGED <<err, input, selectVars, setVars, aggVars, cursorVars>>

NextSet ==
    \/ \E tok \in SetTokens : Set(tok)
    \/ Update

SpecSet == InitSet /\ [][NextSet]_vars

\* The parameter index i of an assignment `col = %(i)s`, else -1.
AssignedIndex(tok) ==
    IF tok.kind = "Comparison" /\ tok.right.kind = "Placeholder"
       /\ \E d \in Digits : tok.right.value = <<"%", "(", d, ")", "s">>
    THEN DigitValue(tok.right.value[3])
    ELSE -1

AssignsNull(tok) ==
    tok.kind = "Comparison" /\ tok.right = Keyword("NULL")

\* Every assignment is `col = %(i)s` with i an index of params, or `col = NULL`.
WellFormedSet ==
    \A k \in 1..Len(set_tokens) :
        /\ set_tokens[k].kind = "Comparison"
        /\ set_tokens[k].left.kind = "Identifier"
        /\ \/ AssignsNull(set_tokens[k])
           \/ AssignedIndex(set_tokens[k]) \in 0..(Len(params) - 1)

SetDoc == out.value["update"]["$set"]

\* C3 as stated: every assigned column whose right side is %(i)s maps to
\* P[i], every one whose right side is NULL maps to null, and $set has one
\* key per assigned column.
C3_EveryAssignment ==
    (phase = "done" /\ WellFormedSet) =>
        /\ out.err = None
        /\ DOMAIN SetDoc = {<<set_tokens[k].left.name>> : k \in 1..Len(set_tokens)}
        /\ \A k \in 1..Len(set_tokens) :
              SetDoc[<<set_tokens[k].left.name>>] =
                  IF AssignsNull(set_tokens[k]) THEN None
                  ELSE params[AssignedIndex(set_tokens[k]) + 1]

\* The last assignment of the column that set_tokens[k] assigns.
LastAssignment(k) ==
    CHOOSE m \in k..Len(set_tokens) :
        /\ set_tokens[m].left.name = set_tokens[k].left.name
        /\ \A n \in (m + 1)..Len(set_tokens) :
              set_tokens[n].left.name # set_tokens[k].left.name

\* C3, amended: $set has one key per assigned column, and each column maps
\* to the value of its last assignment in the list: P[i] when that one's
\* right side is %(i)s (every valid i, 0 included), null when it is NULL.
C3_LastAssignment ==
    (phase = "done" /\ WellFormedSet) =>
        /\ out.err = None
        /\ DOMAIN SetDoc = {<<set_tokens[k].left.name>> : k \in 1..Len(set_tokens)}
        /\ \A k \in 1..Len(set_tokens) :
              SetDoc[<<set_tokens[k].left.name>>] =
                  IF AssignsNull(set_tokens[LastAssignment(k)]) THEN None
                  ELSE params[AssignedIndex(set_tokens[LastAssignment(k)]) + 1]

\* C3's case: an update of two columns was compiled, one set to the
\* parameter of index 0 and one to NULL, with distinct parameters.
C3_Witness ==
    /\ phase = "done"
    /\ WellFormedSet
    /\ Len(set_tokens) = 2
    /\ Len(params) = 2 /\ params[1] # params[2]
    /\ set_tokens[1].left.name # set_tokens[2].left.name
    /\ AssignedIndex(set_tokens[1]) = 0
    /\ AssignsNull(set_tokens[2])
    /\ out.err = None
    /\ SetDoc[<<set_tokens[1].left.name>>] = params[1]
    /\ SetDoc[<<set_tokens[2].left.name>>] = None

-----------------------------------------------------------------------------
(* Reading parameter indexes off a token *)

\* SQLToken._token: the token under test
Wrapped == input.toks[1]

InitIndexes ==
    /\ phase = "token"
    /\ err = None
    /\ out = None
    /\ input \in {Given("token", <<t>>) : t \in IndexedTokens}
    /\ NoSelect /\ NoSet /\ NoAgg /\ NoCursor

\* SQLToken(tok).rhs_indexes of a comparison
ReadRhsIndexes ==
    /\ phase = "token"
    /\ Wrapped.kind = "Comparison"
    /\ phase' = "done"
    /\ out' = RhsIndexes(Wrapped)
    /\ err' = RhsIndexes(Wrapped).err
    /\ UNCHANGED <<input, selectVars, setVars, aggVars, cursorVars>>

\* list(SQLToken(tok)) of a parenthesized list
ReadList ==
    /\ phase = "token"
    /\ Wrapped.kind = "Parenthesis"
    /\ phase' = "done"
    /\ out' = Iter(Wrapped)
    /\ err' = Iter(Wrapped).err
    /\ UNCHANGED <<input, selectVars, setVars, aggVars, cursorVars>>

NextIndexes == ReadRhsIndexes \/ ReadList

SpecIndexes == InitIndexes /\ [][NextIndexes]_vars

\* The text has the form %(N)s, N a run of decimal digits.
HasPlaceholderForm(text) ==
    /\ Len(text) >= 5
    /\ text[1] = "%" /\ text[2] = "("
    /\ \A i \in 3..(Len(text) - 2) : text[i] \in Digits
    /\ text[Len(text) - 1] = ")" /\ text[Len(text)] = "s"

\* The placeholder tokens whose index was extracted: the right side of the
\* comparison, or the elements of the list up to the first that failed.
RECURSIVE PlaceholdersRead(_, _)
PlaceholdersRead(ids, i) ==
    IF i > Len(ids) \/ ~(ids[i].kind = "Placeholder" \/ IsNull(ids[i])) THEN <<>>
    ELSE IF ids[i].kind = "Placeholder" /\ ~HasPlaceholderForm(ids[i].value) THEN <<ids[i]>>
    ELSE <<ids[i]>> \o PlaceholdersRead(ids, i + 1)

\* C6: extracting the index of a placeholder token returns N when its text
\* is %(N)s and fails with SQLDecodeError for every other text, for a
\* comparison's right side and for the elements of a parenthesized list.
C6_PlaceholderDecode ==
    phase = "done" =>
        /\ (Wrapped.kind = "Comparison" /\ Wrapped.right.kind = "Placeholder") =>
              IF HasPlaceholderForm(Wrapped.right.value)
              THEN out = Index(IntOf(Wrapped.right.value, 3, Len(Wrapped.right.value) - 2))
              ELSE out.err = "SQLDecodeError"
        /\ (Wrapped.kind = "Parenthesis") =>
              LET ids  == IF Wrapped.inner.kind = "IdentifierList"
                          THEN Wrapped.inner.ids ELSE <<Wrapped.inner>>
                  read == PlaceholdersRead(ids, 1)
              IN  \A k \in 1..Len(read) :
                      read[k].kind = "Placeholder" =>
                          IF HasPlaceholderForm(read[k].value)
                          THEN /\ Len(out.value) >= k
                               /\ out.value[k] = Index(IntOf(read[k].value, 3,
                                                             Len(read[k].value) - 2))
                          ELSE out.err = "SQLDecodeError"

\* What the code does keep of C6: a text of the form %(N)s gives N.
PlaceholderFormGivesIndex ==
    (/\ phase = "done"
     /\ Wrapped.kind = "Comparison"
     /\ Wrapped.right.kind = "Placeholder"
     /\ HasPlaceholderForm(Wrapped.right.value))
        => out = Index(IntOf(Wrapped.right.value, 3, Len(Wrapped.right.value) - 2))

-----------------------------------------------------------------------------
(* GROUP BY and ORDER BY in aggregation mode *)

MaxColumns == 2
MaxGroup == 2
MaxOrder == 2

\* sqlparse.sql.Function: a call, with its text
Function(call) == [kind |-> "Function", value |-> <<call>>]

\* sqlparse.sql.Identifier of the shape  call AS alias : tok[0] is the call
FuncIdent(call, alias) ==
    [kind |-> "Identifier", first |-> "Function", call |-> call, alias |-> alias]

\* sqlparse.sql.Identifier of the shape  key ASC|DESC : tok[0] is the key
OrderKey(id, ord) ==
    [kind |-> "Identifier", first |-> "Identifier", inner |-> id, ordering |-> ord]

\* The select lists of the aggregation scenarios: columns of the primary
\* table x and of another table y, with and without a column alias, an
\* unqualified column and a function.
AggSelectIdents ==
    {Ident("x", "a", None), Ident("y", "b", None), Ident("x", "a", "c"),
     Ident("y", "b", "c"), Ident(None, "a", None), FuncIdent("COUNT(a)", "n")}

\* Tokens after SELECT that are no select list: SELECT 1, SELECT COUNT(a)
OtherSelectTokens == {Number(<<"1">>), Function("COUNT(a)")}

GroupIdents == {Ident("x", "a", None), Ident("y", "b", None), Ident(None, "a", None)}

\* Tokens after GROUP BY / ORDER BY that are neither an identifier nor an
\* identifier list: BY 1, BY COUNT(a), BY (x.a)
OtherByTokens ==
    {Number(<<"1">>), Function("COUNT(a)"), Parenthesis(Ident("x", "a", None))}

GroupTokens ==
    GroupIdents
    \cup {IdentifierList(ids) : ids \in UNION {[1..k -> GroupIdents] : k \in 2..MaxGroup}}
    \cup {IdentifierList(<<Ident("x", "a", None), Number(<<"1">>)>>)}
    \cup OtherByTokens

\* The keys of an ORDER BY: qualified, unqualified, and the column alias c.
OrderKeys ==
    {OrderKey(Ident("x", "a", None), "DESC"), OrderKey(Ident("y", "b", None), "ASC"),
     OrderKey(Ident(None, "a", None), "DESC"), OrderKey(Ident(None, "c", None), "DESC")}

OrderTokens ==
    OrderKeys
    \cup {Ident("x", "a", None)}                        \* a key without direction
    \cup {IdentifierList(ids) : ids \in UNION {[1..k -> OrderKeys] : k \in 2..MaxOrder}}
    \cup OtherByTokens

\* The keyword after GROUP / ORDER.
ByTokens == {Keyword("BY"), Keyword("DESC")}

\* The classes of sqlparse that are plain tokens, not groups of tokens.
PlainKinds == {"Name", "Number", "Keyword", "Placeholder", "Wildcard"}

\* tok[0] of a group of tokens
First(tok) ==
    IF tok.kind = "Identifier" /\ tok.first = "Identifier" THEN tok.inner
    ELSE IF tok.kind = "Identifier" /\ tok.first = "Function" THEN Function(tok.call)
    ELSE IF tok.kind = "Identifier"
    THEN [kind |-> "Name", value |-> <<IF tok.parent # None THEN tok.parent ELSE tok.name>>]
    ELSE [kind |-> "Name", value |-> <<tok.kind>>]

\* Identifier.get_ordering()
Ordering(tok) == IF "ordering" \in DOMAIN tok THEN tok.ordering ELSE None

\* SQLToken.has_parent(): a plain token has no get_parent_name.
HasParent(tok) ==
    IF tok.kind \in PlainKinds THEN "AttributeError"
    ELSE IF tok.kind = "Identifier" /\ tok.first = "Name" THEN ParentName(tok)
    ELSE None

\* pymongo.ASCENDING, pymongo.DESCENDING
ASCENDING == 1
DESCENDING == -1

\* SQLToken.order
Order(tok) ==
    IF tok.kind # "Identifier" THEN Raised("SQLDecodeError")
    ELSE IF Ordering(tok) = None THEN Raised("SQLDecodeError")
    ELSE IF Ordering(tok) = "ASC" THEN Returned(ASCENDING)
    ELSE IF Ordering(tok) = "DESC" THEN Returned(DESCENDING)
    ELSE Raised("KeyError")

\* OrderConverter.parse on the two tokens after ORDER: [columns, err]
OrderParse(by, tok) ==
    IF by # Keyword("BY")
    THEN [columns |-> <<>>, err |-> "SQLDecodeError"]
    ELSE IF tok.kind = "Identifier"
    THEN [columns |-> << <<First(tok), tok>> >>, err |-> None]
    ELSE IF tok.kind = "IdentifierList"
    THEN IF \E i \in 1..Len(tok.ids) : tok.ids[i].kind \in PlainKinds
         THEN [columns |-> <<>>, err |-> "TypeError"]            \* _id[0]
         ELSE [columns |-> [i \in 1..Len(tok.ids) |-> <<First(tok.ids[i]), tok.ids[i]>>],
               err |-> None]
    ELSE [columns |-> <<>>, err |-> None]

\* sort[field] = direction on an OrderedDict, held as <<field, direction>>
\* pairs in insertion order.
SortPut(sort, field, dir) ==
    IF \E k \in 1..Len(sort) : sort[k][1] = field
    THEN [k \in 1..Len(sort) |-> IF sort[k][1] = field THEN <<field, dir>> ELSE sort[k]]
    ELSE Append(sort, <<field, dir>>)

\* The field AggOrderConverter.to_mongo computes for a key.
SortField(tok, query_left_table, a2t) ==
    IF IsErr(HasParent(tok)) THEN Raised(HasParent(tok))
    ELSE IF IsErr(Table(tok, a2t)) THEN Raised(Table(tok, a2t))
    ELSE IF HasParent(tok) # None
    THEN IF IsErr(Column(tok)) THEN Raised(Column(tok))
         ELSE IF Table(tok, a2t) = query_left_table THEN Returned(Str(Column(tok)))
         ELSE Returned(<<Table(tok, a2t), ".", Column(tok)>>)
    ELSE Returned(Str(Table(tok, a2t)))

\* The loop of AggOrderConverter.to_mongo over columns[i..]
RECURSIVE SortDocument(_, _, _, _, _)
SortDocument(columns, query_left_table, a2t, i, sort) ==
    IF i > Len(columns) THEN Returned("$sort" :> sort)
    ELSE LET field == SortField(columns[i][1], query_left_table, a2t)
             dir   == Order(columns[i][2])
         IN  IF field.err # None THEN field
             ELSE IF dir.err # None THEN dir
             ELSE SortDocument(columns, query_left_table, a2t, i + 1,
                               SortPut(sort, field.value, dir.value))

\* AggOrderConverter.to_mongo
AggOrderToMongo(conv, query_left_table, a2t) ==
    SortDocument(conv.columns, query_left_table, a2t, 1, <<>>)

\* GroupbyConverter.parse on the two tokens after GROUP: [sql_tokens, err]
GroupbyParse(by, tok) ==
    IF by # Keyword("BY")
    THEN [sql_tokens |-> <<>>, err |-> "SQLDecodeError"]
    ELSE IF tok.kind = "Identifier" THEN [sql_tokens |-> <<tok>>, err |-> None]
    ELSE IF tok.kind = "IdentifierList" THEN [sql_tokens |-> tok.ids, err |-> None]
    ELSE [sql_tokens |-> <<>>, err |-> "AttributeError"]   \* no get_identifiers

\* The dict `doc`, a map from the path of a key to the value at it, without
\* everything at or under the top-level key `key`.
WithoutKey(doc, key) == [p \in {q \in DOMAIN doc : q[1] # key} |-> doc[p]]

\* _Tokens2Id.to_id over sql_tokens[i..]: `_id` maps <<column>> to '$column'
\* and <<table, column>> (column under the key table) to '$table.column'.
RECURSIVE ToId(_, _, _, _, _)
ToId(toks, query_left_table, a2t, i, id) ==
    IF i > Len(toks) THEN Returned(id)
    ELSE LET table  == Table(toks[i], a2t)
             column == Column(toks[i])
         IN  IF IsErr(table) THEN Raised(table)
             ELSE IF IsErr(column) THEN Raised(column)
             ELSE IF table = query_left_table
             THEN ToId(toks, query_left_table, a2t, i + 1,
                       (<<column>> :> <<"$", column>>) @@ WithoutKey(id, column))
             ELSE IF <<table>> \in DOMAIN id
             THEN Raised("TypeError")             \* item assignment to a str
             ELSE ToId(toks, query_left_table, a2t, i + 1,
                       (<<table, column>> :> <<"$", table, ".", column>>) @@ id)

\* isinstance(selected, SQLFunc), for an entry of selected_columns.sql_tokens
IsSQLFunc(selected) == selected.first = "Function"

\* SQLFunc.alias
FuncAlias(selected) == selected.alias

\* SQLFunc.to_mongo(): the accumulator of the call
FuncToMongo(selected) == [accumulator |-> selected.call]

\* The loop of GroupbyConverter.to_mongo over the selected columns [i..]
RECURSIVE GroupDocuments(_, _, _, _, _, _)
GroupDocuments(selected, query_left_table, a2t, i, group, project) ==
    IF i > Len(selected)
    THEN Returned(<< "$group" :> group, "$project" :> project >>)
    ELSE IF ~IsSQLFunc(selected[i])
    THEN LET table  == SelectedTable(selected[i], a2t)
             column == SelectedColumn(selected[i])
         IN  IF IsErr(table) THEN Raised(table)
             ELSE IF IsErr(column) THEN Raised(column)
             ELSE IF table = query_left_table
             THEN GroupDocuments(selected, query_left_table, a2t, i + 1, group,
                      (Str(column) :> <<"$", "_id", ".", column>>) @@ project)
             ELSE GroupDocuments(selected, query_left_table, a2t, i + 1, group,
                      (<<table, ".", column>> :> <<"_id", ".", table, ".", column>>)
                          @@ project)
    ELSE GroupDocuments(selected, query_left_table, a2t, i + 1,
             (Str(FuncAlias(selected[i])) :> FuncToMongo(selected[i])) @@ group,
             (Str(FuncAlias(selected[i])) :> TRUE) @@ project)

\* GroupbyConverter.to_mongo
GroupbyToMongo(conv, selected, query_left_table, a2t) ==
    LET id == ToId(conv.sql_tokens, query_left_table, a2t, 1, EmptyMap)
    IN  IF id.err # None THEN id
        ELSE GroupDocuments(selected, query_left_table, a2t, 1,
                            Str("_id") :> id.value, Str("_id") :> FALSE)

\* A statement begins: SELECT, or UPDATE t SET with its parameters.
InitClauses ==
    /\ phase \in {"select", "set"}
    /\ err = None
    /\ out = None
    /\ input = NoInput
    /\ NoSelect /\ NoAgg /\ NoCursor
    /\ set_tokens = <<>>
    /\ params \in IF phase = "set" THEN ParamLists ELSE {<<>>}

\* GROUP BY: GroupbyConverter(query, statement)
GroupBy(by, tok) ==
    /\ phase = "join"
    /\ groupby = <<>> /\ order = <<>>
    /\ LET s == GroupbyParse(by, tok)
       IN  IF s.err # None THEN Fail(s.err) /\ UNCHANGED groupby
           ELSE /\ groupby' = <<[sql_tokens |-> s.sql_tokens]>>
                /\ UNCHANGED <<phase, err>>
    /\ input' = Given("GROUP", <<by, tok>>)
    /\ UNCHANGED <<out, order, selectVars, setVars, cursorVars>>

\* ORDER BY: AggOrderConverter(query, statement)
OrderBy(by, tok) ==
    /\ phase = "join"
    /\ order = <<>>
    /\ LET s == OrderParse(by, tok)
       IN  IF s.err # None THEN Fail(s.err) /\ UNCHANGED order
           ELSE /\ order' = <<[columns |-> s.columns]>>
                /\ UNCHANGED <<phase, err>>
    /\ input' = Given("ORDER", <<by, tok>>)
    /\ UNCHANGED <<out, groupby, selectVars, setVars, cursorVars>>

\* The end of the statement: to_mongo() of the GROUP BY and ORDER BY
\* converters the statement built.
AggToMongo ==
    /\ phase = "join"
    /\ phase' = "done"
    /\ out' = [group |-> [i \in 1..Len(groupby) |->
                             GroupbyToMongo(groupby[i], selected_columns.sql_tokens,
                                            left_table, alias2token)],
               sort  |-> [i \in 1..Len(order) |->
                             AggOrderToMongo(order[i], left_table, alias2token)]]
    /\ UNCHANGED <<err, input, selectVars, setVars, aggVars, cursorVars>>

NextClauses ==
    \/ \E ids \in SeqsUpTo(AggSelectIdents, MaxColumns) : SelectColumns(<<SelectToken(ids)>>)
    \/ \E tok \in OtherSelectTokens : SelectColumns(<<tok>>)
    \/ From(Ident(None, "x", None))
    \/ \E by \in ByTokens, tok \in GroupTokens : GroupBy(by, tok)
    \/ \E by \in ByTokens, tok \in OrderTokens : OrderBy(by, tok)
    \/ AggToMongo
    \/ \E tok \in SetTokens : Set(tok)
    \/ Update

SpecClauses == InitClauses /\ [][NextClauses]_vars

-----------------------------------------------------------------------------
(* Claims about GROUP BY, ORDER BY and the clause grammars *)

\* A plain column written table.column
Qualified(tok) == tok.kind = "Identifier" /\ tok.first = "Name" /\ tok.parent # None

\* The GROUP BY and the select list hold qualified columns and functions only.
QualifiedGrouping ==
    /\ \A i \in 1..Len(groupby[1].sql_tokens) : Qualified(groupby[1].sql_tokens[i])
    /\ \A i \in 1..Len(selected_columns.sql_tokens) :
          \/ selected_columns.sql_tokens[i].first = "Function"
          \/ Qualified(selected_columns.sql_tokens[i])

\* The key of a column in a flat document: column for the primary table,
\* 'table.column' for another one.
FlatKey(tok) ==
    IF tok.parent = left_table THEN <<tok.name>> ELSE <<tok.parent, ".", tok.name>>

\* The path of a column in `_id`: column, or column under table.
IdPath(tok) ==
    IF tok.parent = left_table THEN <<tok.name>> ELSE <<tok.parent, tok.name>>

SelectedPlain ==
    {i \in 1..Len(selected_columns.sql_tokens) :
        selected_columns.sql_tokens[i].first # "Function"}
SelectedFuncs ==
    {i \in 1..Len(selected_columns.sql_tokens) :
        selected_columns.sql_tokens[i].first = "Function"}

\* The $group document C7 states.
StatedGroup ==
    (<<"_id">> :>
        [p \in {IdPath(groupby[1].sql_tokens[i]) : i \in 1..Len(groupby[1].sql_tokens)} |->
            IF Len(p) = 1 THEN <<"$", p[1]>> ELSE <<"$", p[1], ".", p[2]>>])
    @@ [k \in {<<selected_columns.sql_tokens[i].alias>> : i \in SelectedFuncs} |->
            [accumulator |->
                selected_columns.sql_tokens[
                    CHOOSE i \in SelectedFuncs :
                        <<selected_columns.sql_tokens[i].alias>> = k].call]]

\* The $project document C7 states.
StatedProject ==
    (<<"_id">> :> FALSE)
    @@ [k \in {FlatKey(selected_columns.sql_tokens[i]) : i \in SelectedPlain} |->
            <<"$", "_id", ".">> \o k]
    @@ [k \in {<<selected_columns.sql_tokens[i].alias>> : i \in SelectedFuncs} |-> TRUE]

\* C7: GroupbyConverter.to_mongo returns [$group, $project]; `_id` holds
\* '$col' under col for a grouped column of the primary table and
\* '$table.col' under table, col for one of another table; $project maps a
\* selected column of the primary table to '$_id.col' and one of another
\* table, under the key 'table.col', to '$_id.table.col'; a selected function
\* is an accumulator of $group under its alias and `alias: true` in $project.
C7_GroupProject ==
    (phase = "done" /\ groupby # <<>> /\ QualifiedGrouping) =>
        /\ out.group[1].err = None
        /\ out.group[1].value =
               << "$group" :> StatedGroup, "$project" :> StatedProject >>

\* What the code keeps of C7: the same, when every selected column is one
\* of the primary table or a function.
GroupProjectOfPrimaryTable ==
    (/\ phase = "done" /\ groupby # <<>> /\ QualifiedGrouping
     /\ \A i \in SelectedPlain : selected_columns.sql_tokens[i].parent = left_table)
        => /\ out.group[1].err = None
           /\ out.group[1].value =
                  << "$group" :> StatedGroup, "$project" :> StatedProject >>

\* The token at the clause position has a shape the clause's grammar does
\* not recognise.
UnrecognisedShape ==
    \/ /\ input.clause = "SELECT"
       /\ input.toks[1].kind \notin {"Wildcard", "Identifier", "IdentifierList"}
       /\ input.toks[1] # Keyword("DISTINCT")
    \/ /\ input.clause = "SET"
       /\ input.toks[1].kind \notin {"Comparison", "IdentifierList"}
    \/ /\ input.clause \in {"GROUP", "ORDER"}
       /\ input.toks[1] = Keyword("BY")
       /\ input.toks[2].kind \notin {"Identifier", "IdentifierList"}

\* C8: a clause converter whose token at the clause position has a shape
\* its grammar does not recognise fails with SQLDecodeError and yields no
\* fragment, for SELECT, SET, ORDER BY and GROUP BY.
C8_UnrecognisedShapeFails ==
    UnrecognisedShape =>
        /\ phase = "error"
        /\ err = "SQLDecodeError"
        /\ input.clause = "SELECT" => selected_columns.sql_tokens = <<>>
        /\ input.clause = "SET" => set_tokens = <<>>
        /\ input.clause = "GROUP" => groupby = <<>>
        /\ input.clause = "ORDER" => order = <<>>

\* What the code keeps of C8: SELECT and SET fail with SQLDecodeError.
SelectAndSetFail ==
    (UnrecognisedShape /\ input.clause \in {"SELECT", "SET"}) =>
        /\ phase = "error"
        /\ err = "SQLDecodeError"
        /\ selected_columns.sql_tokens = <<>>
        /\ set_tokens = <<>>

\* The column an ORDER BY key refers to, <<table, names>>: the column
\* itself for table.column, the aliased column (under its own name or the
\* alias) for a registered alias, a column of the primary table otherwise.
KeyColumn(key) ==
    IF key.parent # None THEN <<key.parent, {key.name}>>
    ELSE IF key.name \in DOMAIN alias2token
    THEN <<Table(alias2token[key.name].tok, alias2token),
           {key.name, alias2token[key.name].tok.name}>>
    ELSE <<left_table, {key.name}>>

\* The fields C10 allows for a key: column for the primary table,
\* 'table.column' for another one; an alias may also stand as it is.
SortFields(key) ==
    {IF KeyColumn(key)[1] = left_table THEN <<c>> ELSE <<KeyColumn(key)[1], ".", c>> :
        c \in KeyColumn(key)[2]}
    \cup (IF key.parent = None THEN {<<key.name>>} ELSE {})

\* Every key of the ORDER BY is a column with a direction, and no two keys
\* can name the same field.
WellFormedOrder ==
    /\ \A k \in 1..Len(order[1].columns) :
          /\ order[1].columns[k][1].kind = "Identifier"
          /\ Ordering(order[1].columns[k][2]) \in {"ASC", "DESC"}
    /\ \A k, m \in 1..Len(order[1].columns) :
          k # m => SortFields(order[1].columns[k][1])
                       \cap SortFields(order[1].columns[m][1]) = {}

SortDoc == out.sort[1].value["$sort"]

\* C10: AggOrderConverter.to_mongo returns a $sort with one entry per ORDER
\* BY key, in the order written; an entry's field is the key's column when
\* the key's table is the primary table and 'table.column' otherwise, its
\* value the key's direction; for qualified and unqualified keys, also when
\* an unqualified key is a registered alias.
C10_SortEntries ==
    (phase = "done" /\ order # <<>> /\ Len(order[1].columns) > 0 /\ WellFormedOrder) =>
        /\ out.sort[1].err = None
        /\ Len(SortDoc) = Len(order[1].columns)
        /\ \A k \in 1..Len(order[1].columns) :
              /\ SortDoc[k][1] \in SortFields(order[1].columns[k][1])
              /\ SortDoc[k][2] =
                     IF Ordering(order[1].columns[k][2]) = "ASC" THEN 1 ELSE -1

\* What the code keeps of C10: the same, when no key is a registered alias.
SortEntriesWithoutAlias ==
    (/\ phase = "done" /\ order # <<>> /\ Len(order[1].columns) > 0 /\ WellFormedOrder
     /\ \A k \in 1..Len(order[1].columns) :
           order[1].columns[k][1].name \notin DOMAIN alias2token)
        => /\ out.sort[1].err = None
           /\ Len(SortDoc) = Len(order[1].columns)
           /\ \A k \in 1..Len(order[1].columns) :
                 /\ SortDoc[k][1] \in SortFields(order[1].columns[k][1])
                 /\ SortDoc[k][2] =
                        IF Ordering(order[1].columns[k][2]) = "ASC" THEN 1 ELSE -1

-----------------------------------------------------------------------------
(* SQLStatement, the cursor over a statement's tokens, and HAVING *)

MaxTokens == 3
MaxSkip == 2

Whitespace == [kind |-> "Whitespace", value |-> <<" ">>]

\* The conditions of a HAVING: a call selected as `COUNT(a) AS n`, alone,
\* on the left and on the right of a comparison and in parentheses; a call
\* that is not selected; a comparison without a call.
HavingConditions ==
    {Function("COUNT(a)"),
     Comparison(Function("COUNT(a)"), Placeholder(Chars("0"))),
     Comparison(Placeholder(Chars("0")), Function("COUNT(a)")),
     Parenthesis(Comparison(Function("COUNT(a)"), Placeholder(Chars("0")))),
     Comparison(Function("SUM(b)"), Placeholder(Chars("0"))),
     Comparison(Ident("x", "a", None), Placeholder(Chars("0")))}

\* The tokens of the statements the cursor walks.
StatementTokens ==
    {Keyword("HAVING"), Keyword("ORDER"), Whitespace} \cup HavingConditions

Statements == UNION {[1..n -> StatementTokens] : n \in 1..MaxTokens}

\* The select lists parsed before the cursor reaches HAVING.
HavingSelects ==
    {<<Ident("x", "a", None)>>,
     <<IdentifierList(<<Ident("x", "a", None), FuncIdent("COUNT(a)", "n")>>)>>}

\* SQLStatement._tok_id: <<k>> for the integer k, <<>> for None
At(k) == <<k>>
Exhausted == <<>>

\* TokenList.token_next(idx): the first token after idx that is no
\* whitespace, with its index; (None, None) when idx is None or there is
\* none.
TokenNext(stmt, id) ==
    IF id = Exhausted THEN Exhausted
    ELSE LET later == {j \in (id[1] + 1)..(Len(stmt) - 1) : stmt[j + 1].kind # "Whitespace"}
         IN  IF later = {} THEN Exhausted
             ELSE At(CHOOSE j \in later : \A m \in later : j <= m)

\* self._statement[self._tok_id]
CurrentToken(stmt, id) ==
    IF id = Exhausted THEN Raised("TypeError")
    ELSE IF id[1] >= Len(stmt) THEN Raised("IndexError")
    ELSE Returned(stmt[id[1] + 1])

\* The token a call returned: <<tok>>, or <<>> for None
Token(id) == IF id = Exhausted THEN <<>> ELSE <<statement[id[1] + 1]>>

\* statement.value.find('HAVING'): the index of the first HAVING, or -1
FindHaving(stmt) ==
    IF \E j \in 1..Len(stmt) : stmt[j] = Keyword("HAVING")
    THEN (CHOOSE j \in 1..Len(stmt) :
              /\ stmt[j] = Keyword("HAVING")
              /\ \A m \in 1..(j - 1) : stmt[m] # Keyword("HAVING")) - 1
    ELSE -1

\* sqlparse(having)[0][0]: the Where group of the text from HAVING on, with
\* HAVING replaced by WHERE; the group ends before the next ORDER.
WhereGroup(stmt) ==
    LET i    == FindHaving(stmt) + 1
        ends == {j \in (i + 1)..Len(stmt) : stmt[j] = Keyword("ORDER")}
        last == IF ends = {} THEN Len(stmt)
                ELSE (CHOOSE j \in ends : \A m \in ends : j <= m) - 1
    IN  [kind |-> "Where",
         tokens |-> [j \in 1..(last - i + 1) |->
                        IF stmt[i + j - 1] = Keyword("HAVING") THEN Keyword("WHERE")
                        ELSE stmt[i + j - 1]]]

\* The first selected function whose call has the text `value`
\* (func._token[0].value == value): its index in the select list, or 0.
SelectedFunc(value, selected) ==
    LET found == {k \in 1..Len(selected) :
                     IsSQLFunc(selected[k]) /\ First(selected[k]).value = value}
    IN  IF found = {} THEN 0 ELSE CHOOSE k \in found : \A m \in found : k <= m

\* sqlparse(f'"{left_table}"."{func.alias}"')[0][0]
AliasIdentifier(query_left_table, func) ==
    Ident(query_left_table, FuncAlias(func), None)

\* What HavingConverter2._sub makes of one child token.
RECURSIVE SubChild(_, _, _)
SubChild(child, selected, query_left_table) ==
    IF child.kind = "Parenthesis"
    THEN LET inner == SubChild(child.inner, selected, query_left_table)
         IN  IF inner.err # None THEN inner ELSE Returned(Parenthesis(inner.value))
    ELSE IF child.kind = "Function"
    THEN IF SelectedFunc(child.value, selected) = 0 THEN Raised("SQLDecodeError")
         ELSE Returned(AliasIdentifier(query_left_table,
                                       selected[SelectedFunc(child.value, selected)]))
    ELSE IF child.kind = "Comparison" /\ child.left.kind = "Function"
    THEN IF SelectedFunc(child.left.value, selected) = 0 THEN Raised("SQLDecodeError")
         ELSE Returned(Comparison(
                  AliasIdentifier(query_left_table,
                                  selected[SelectedFunc(child.left.value, selected)]),
                  child.right))
    ELSE Returned(child)

\* HavingConverter2._sub(having)
Sub(where, selected, query_left_table) ==
    LET subs == [j \in 1..Len(where.tokens) |->
                    SubChild(where.tokens[j], selected, query_left_table)]
    IN  IF \E j \in 1..Len(subs) : subs[j].err # None
        THEN Raised("SQLDecodeError")
        ELSE Returned([kind |-> "Where", tokens |-> [j \in 1..Len(subs) |-> subs[j].value]])

\* WhereOp(statement=tok, ...) of HavingConverter: the condition is the
\* three tokens HAVING, whitespace, comparison.
WhereOpAccepts(slice) == Len(slice) = 3

\* The orchestrator builds a HAVING converter with the cursor on HAVING.
AtHaving ==
    /\ CurrentToken(statement, tok_id).err = None
    /\ CurrentToken(statement, tok_id).value = Keyword("HAVING")

InitCursor ==
    /\ phase = "cursor"
    /\ err = None
    /\ out = <<>>
    /\ input = NoInput
    /\ statement \in Statements
    /\ tok_id = At(0)
    /\ iterating = FALSE
    /\ having = <<>>
    /\ \E toks \in HavingSelects :
          selected_columns = ColumnSelectParse(toks, EmptyMap, <<>>).conv
    /\ alias2token = EmptyMap
    /\ token2alias = <<>>
    /\ left_table = "x"
    /\ joins = <<>>
    /\ NoSet /\ NoAgg

\* SQLStatement.next()
StatementNext ==
    /\ phase = "cursor"
    /\ tok_id' = TokenNext(statement, tok_id)
    /\ out' = Token(tok_id')
    /\ err' = None
    /\ UNCHANGED <<phase, input, statement, iterating, having, selectVars, setVars, aggVars>>

\* SQLStatement.skip(num)
StatementSkip(num) ==
    /\ phase = "cursor"
    /\ tok_id # Exhausted => tok_id[1] + num <= MaxTokens + MaxSkip
    /\ IF tok_id = Exhausted
       THEN err' = "TypeError" /\ UNCHANGED tok_id            \* None += num
       ELSE err' = None /\ tok_id' = At(tok_id[1] + num)
    /\ UNCHANGED <<phase, out, input, statement, iterating, having,
                   selectVars, setVars, aggVars>>

\* next() of the generator SQLStatement.__iter__ returned: up to the first
\* yield, or from one yield to the next or to the end.
IterNext ==
    /\ phase = "cursor"
    /\ IF ~iterating
       THEN /\ UNCHANGED tok_id
            /\ err' = CurrentToken(statement, tok_id).err
            /\ iterating' = (CurrentToken(statement, tok_id).err = None)
            /\ out' = IF CurrentToken(statement, tok_id).err = None
                      THEN <<CurrentToken(statement, tok_id).value>> ELSE <<>>
       ELSE /\ tok_id' = TokenNext(statement, tok_id)
            /\ err' = None
            /\ iterating' = (tok_id' # Exhausted)
            /\ out' = Token(tok_id')
    /\ UNCHANGED <<phase, input, statement, having, selectVars, setVars, aggVars>>

\* HavingConverter(query, statement): parse() reads statement[:3] and skips 2
HavingParse ==
    /\ phase = "cursor"
    /\ AtHaving
    /\ LET slice == SubSeq(statement, tok_id[1] + 1,
                           IF tok_id[1] + 3 <= Len(statement)
                           THEN tok_id[1] + 3 ELSE Len(statement))
       IN  IF WhereOpAccepts(slice)
           THEN err' = None /\ tok_id' = At(tok_id[1] + 2)
           ELSE err' = "SQLDecodeError" /\ UNCHANGED tok_id
    /\ UNCHANGED <<phase, out, input, statement, iterating, having,
                   selectVars, setVars, aggVars>>

\* HavingConverter2(query, statement): parse() skips the tokens of the
\* condition, then rewrites its function references.
Having2Parse ==
    /\ phase = "cursor"
    /\ AtHaving
    /\ LET where == WhereGroup(statement)
           sub   == Sub(where, selected_columns.sql_tokens, left_table)
       IN  /\ tok_id' = At(tok_id[1] + Len(where.tokens) - 1)
           /\ input' = Given("HAVING", where.tokens)
           /\ having' = <<sub>>
           /\ err' = sub.err
    /\ UNCHANGED <<phase, out, statement, iterating, selectVars, setVars, aggVars>>

NextCursor ==
    \/ StatementNext
    \/ \E num \in 1..MaxSkip : StatementSkip(num)
    \/ IterNext
    \/ HavingParse
    \/ Having2Parse

SpecCursor == InitCursor /\ [][NextCursor]_vars

-----------------------------------------------------------------------------
(* Claims about the cursor and HAVING *)

\* C5: after any sequence of next(), skip(n), iteration steps and HAVING
\* parses, the cursor position is the index of a token of the statement or
\* the exhausted marker, never an index past the end, and current_token is
\* defined whenever the cursor is not exhausted.
C5_PositionValid ==
    tok_id # Exhausted =>
        /\ tok_id[1] \in 0..(Len(statement) - 1)
        /\ CurrentToken(statement, tok_id).err = None

\* The calls a token holds: itself, either side of a comparison, or inside
\* parentheses.
RECURSIVE Calls(_)
Calls(tok) ==
    IF tok.kind = "Function" THEN {tok.value}
    ELSE IF tok.kind = "Comparison" THEN Calls(tok.left) \cup Calls(tok.right)
    ELSE IF tok.kind = "Parenthesis" THEN Calls(tok.inner)
    ELSE {}

\* The token with every call replaced by primary_table.alias of the
\* selected function of that call.
RECURSIVE Rewritten(_)
Rewritten(tok) ==
    IF tok.kind = "Function"
    THEN AliasIdentifier(left_table,
             selected_columns.sql_tokens[SelectedFunc(tok.value, selected_columns.sql_tokens)])
    ELSE IF tok.kind = "Comparison" THEN Comparison(Rewritten(tok.left), Rewritten(tok.right))
    ELSE IF tok.kind = "Parenthesis" THEN Parenthesis(Rewritten(tok.inner))
    ELSE tok

\* Every call of the condition is the call of a selected function.
CallsSelected ==
    \A j \in 1..Len(input.toks) :
        \A call \in Calls(input.toks[j]) :
            SelectedFunc(call, selected_columns.sql_tokens) # 0

\* C9: HavingConverter2 rewrites every function reference of the condition
\* (standalone, on either side of a comparison, in parentheses) to
\* primary_table.alias of the selected function with the same call text,
\* so that no call remains; a reference that matches no selected function
\* fails with SQLDecodeError.
C9_HavingRewritten ==
    input.clause = "HAVING" =>
        IF CallsSelected
        THEN /\ having[1].err = None
             /\ having[1].value.tokens =
                    [j \in 1..Len(input.toks) |-> Rewritten(input.toks[j])]
             /\ \A j \in 1..Len(having[1].value.tokens) :
                    Calls(having[1].value.tokens[j]) = {}
        ELSE having[1].err = "SQLDecodeError"

\* A call stands alone or on the left of a comparison, in parentheses or not.
RECURSIVE CallsOnLeft(_)
CallsOnLeft(tok) ==
    IF tok.kind = "Comparison" THEN Calls(tok.right) = {}
    ELSE IF tok.kind = "Parenthesis" THEN CallsOnLeft(tok.inner)
    ELSE TRUE

\* What the code keeps of C9: the same, when no call is on the right of a
\* comparison.
HavingRewrittenOnLeft ==
    (input.clause = "HAVING" /\ \A j \in 1..Len(input.toks) : CallsOnLeft(input.toks[j])) =>
        IF CallsSelected
        THEN /\ having[1].err = None
             /\ having[1].value.tokens =
                    [j \in 1..Len(input.toks) |-> Rewritten(input.toks[j])]
        ELSE having[1].err = "SQLDecodeError"

=============================================================================
